---- MODULE Spec2Model ----
(***************************************************************************)
(* The debugger Bridge of pkg/nuclide-debugger/lib/Bridge.js as a state    *)
(* machine.  The Bridge sits between a DebuggerModel (store, breakpoint    *)
(* store, actions) and a CommandDispatcher that writes commands to a       *)
(* webview; inbound 'ipc-message' events of the webview are dispatched by  *)
(* _handleIpcMessage.  JavaScript runs handlers to completion on a single  *)
(* thread, so one handler is one action; the only place where a handler is *)
(* cut in two is the call out into the model made by _bindBreakpoint and   *)
(* _removeBreakpoint between setting and resetting _suppressBreakpointSync.*)
(*                                                                         *)
(* CommandDispatcher, DebuggerModel/Store/Actions, BreakpointStore and     *)
(* nuclideUri live in other files; they are modelled from the              *)
(* specification (sections 3, 4.1, 4.3, 5 and 6).                          *)
(*                                                                         *)
(* The groups of operations (commands, evaluation, pausing, breakpoints,   *)
(* handshake) write disjoint parts of the model, so each is checked in a   *)
(* specification of its own together with the Bridge's lifecycle.          *)
(***************************************************************************)
EXTENDS Integers, Sequences, FiniteSets, TLC

(* ------------------------------ bounds ------------------------------- *)
NumWebviews == 2
MaxLine == 2
MaxThreadIdLen == 2
MaxEvalId == 2
MaxTrace == 2
MaxPage == 3

(* ------------------------------ domains ------------------------------ *)
Webviews == 1..NumWebviews
NoWebview == 0
Urls == {"chrome://a", "chrome://b"}
NoUrl == ""

Lines == 1..MaxLine
LocalPaths == {"/a.js"}
\* a sourceURL: its scheme and what follows it
SourceURLs == {[scheme |-> "file", path |-> "/a.js"],
               [scheme |-> "http", path |-> "/a.js"]}
Conditions == {"x>1"}
\* JavaScript values a payload's `resolved` field may hold: <<typeof, text>>
JsTrue == <<"boolean", "true">>
JsUndefined == <<"undefined", "">>
JsOne == <<"number", "1">>
ResolvedValues == {JsTrue, JsUndefined, JsOne}

\* an optional value: Null, or Some(x)
Null == <<>>
Some(x) == <<x>>

VARIABLES
  \* Bridge fields (Bridge.js 33-41)
  _webview,                \* ?WebviewElement: NoWebview or a webview
  _webviewUrl,             \* ?string: NoUrl or a url
  _cleanupDisposables,     \* NoWebview (null), or the webview whose subscription and teardown it holds
  _disposables,            \* TRUE while the onUserChange subscription is alive
  _suppressBreakpointSync, \* boolean
  \* CommandDispatcher
  chromeChannel,           \* the webview commands are written to, NoWebview before setupChromeChannel
  \* the document and its webviews
  subscriptions,           \* webviews on which _handleIpcMessage is subscribed to 'ipc-message'
  inDom,                   \* webviews appended to document.body and not removed
  src,                     \* webview -> its src url
  \* DebuggerModel: store, breakpoint store
  breakpoints,             \* <<path, line>> -> [condition, enabled, resolved]
  mode,                    \* DebuggerMode
  selectedThread,          \* Null or Some(thread number)
  stopThread,              \* Null or Some(thread id)
  settings,                \* serialized settings
  pauseFlags,              \* [exception, caught, singleThread : BOOLEAN]
  pending,                 \* evaluation id -> kind of the outstanding request
  delivered,               \* evaluation id -> Null or Some(response)
  \* position inside _bindBreakpoint / _removeBreakpoint
  pc,                      \* "idle", "bindBreakpointIPC" or "deleteBreakpointIPC"
  cur,                     \* the arguments of the model call in progress
  \* what the last operation did
  op,                      \* its name
  input,                   \* <<its name, its input>>
  emitted,                 \* commands it passed to CommandDispatcher.send, in order
  wire,                    \* what CommandDispatcher wrote to a transport, in order
  threw,                   \* it threw
  calls,                   \* the model actions it called, in order
  listener,                \* invocations of _handleUserBreakpointChange it caused
  replay,                  \* breakpoint keys implied by the mutations so far, in arrival order
  \* a recorder on CommandDispatcher.send
  trace                    \* Null without a recorder, else Some(its last MaxTrace calls, oldest first)

bridgeVars == <<_webview, _webviewUrl, _cleanupDisposables, _disposables,
                _suppressBreakpointSync, chromeChannel>>
domVars == <<subscriptions, inDom, src>>
bpVars == <<breakpoints, replay>>
storeVars == <<settings, pauseFlags>>
debugVars == <<mode, selectedThread, stopThread>>
evalVars == <<pending, delivered>>
modelVars == <<bpVars, storeVars, debugVars, evalVars>>
pcVars == <<pc, cur>>
opVars == <<op, input, emitted, wire, threw, calls, listener>>
\* the input of the last operation
arg == input[2]

VARIABLES
  \* PanelComponent (part_000 150-302)
  position,                \* props.position
  isResizing,              \* state.isResizing
  size,                    \* state.size
  _resizeSubscriptions,    \* "null", or the CompositeDisposable: "active" or "disposed"
  windowListeners,         \* the event types the component's handlers are registered for on window
  mounted,                 \* FALSE after componentWillUnmount
  \* what the last event of the panel did
  panelOp,                 \* the handler
  panelEvent,              \* <<the handler, its event>>
  onResize                 \* the values props.onResize was called with, in order

panelState == <<position, isResizing, size, _resizeSubscriptions, windowListeners, mounted>>
panelVars == <<panelState, panelOp, panelEvent, onResize>>
\* the event of the panel's last handler
panelArg == panelEvent[2]
bridgeAll == <<bridgeVars, domVars, modelVars, pcVars, opVars, trace>>
vars == <<bridgeAll, panelVars>>

(* --------------------------- CommandDispatcher ------------------------ *)
\* (the channel is named first: TLC compares two commands field by field in the
\* order the field names first occur, and only commands of one channel have
\* arguments of the same kinds)
Cmd(name, a) == [channel |-> name, args |-> a]

\* CommandDispatcher.send for each command of cmds in turn: written to the
\* attached transport, dropped without throwing when none is attached.
Transmit(ch, cmds) ==
  IF ch = NoWebview THEN <<>>
  ELSE [i \in 1..Len(cmds) |-> [to |-> ch, cmd |-> cmds[i]]]

\* the last MaxTrace elements of s
LastN(s) == IF Len(s) <= MaxTrace THEN s ELSE SubSeq(s, Len(s) - MaxTrace + 1, Len(s))

\* the recorder notes the command of each call of send
Recorded(cmds) == IF trace = Null THEN Null ELSE Some(LastN(trace[1] \o cmds))

\* an operation that passes cmds to this._commandDispatcher.send
Sends(cmds) ==
  /\ emitted' = cmds
  /\ wire' = Transmit(chromeChannel, cmds)
  /\ trace' = Recorded(cmds)
  /\ UNCHANGED panelVars

\* an operation named n with input a that returns normally
Did(n, a) == op' = n /\ input' = <<n, a>> /\ threw' = FALSE

Idle == pc = "idle"

(* ------------------------------ lifecycle ----------------------------- *)
\* the disposables of _cleanupDisposables without the 'ipc-message' subscription
CleanupDisposablesKeepListener ==
  /\ subscriptions' = subscriptions
  /\ inDom' = inDom \ {_cleanupDisposables}
  /\ _webview' = NoWebview
  /\ _webviewUrl' = NoUrl

\* the two disposables held by _cleanupDisposables (Bridge.js 407-416)
CleanupDisposablesDispose ==
  /\ subscriptions' = subscriptions \ {_cleanupDisposables}
  /\ inDom' = inDom \ {_cleanupDisposables}
  /\ _webview' = NoWebview
  /\ _webviewUrl' = NoUrl

\* cleanup disposing _cleanupDisposables without clearing the field
cleanupBodyKeeps ==
  IF _cleanupDisposables # NoWebview
  THEN /\ CleanupDisposablesDispose
       /\ UNCHANGED _cleanupDisposables
  ELSE UNCHANGED <<subscriptions, inDom, _webview, _webviewUrl, _cleanupDisposables>>

cleanupBody ==
  IF _cleanupDisposables # NoWebview
  THEN /\ CleanupDisposablesDispose
       /\ _cleanupDisposables' = NoWebview
  ELSE UNCHANGED <<subscriptions, inDom, _webview, _webviewUrl, _cleanupDisposables>>

cleanup ==
  /\ Idle
  /\ cleanupBody
  /\ Did("cleanup", Null)
  /\ Sends(<<>>)
  /\ calls' = <<>> /\ listener' = <<>>
  /\ UNCHANGED <<_disposables, _suppressBreakpointSync, chromeChannel, src, modelVars, pcVars>>

\* dispose without this._disposables.dispose()
disposeKeepsListener ==
  /\ Idle
  /\ cleanupBody
  /\ Did("dispose", Null)
  /\ Sends(<<>>)
  /\ calls' = <<>> /\ listener' = <<>>
  /\ UNCHANGED <<_disposables, _suppressBreakpointSync, chromeChannel, src, modelVars, pcVars>>

dispose ==
  /\ Idle
  /\ cleanupBody
  /\ _disposables' = FALSE
  /\ Did("dispose", Null)
  /\ Sends(<<>>)
  /\ calls' = <<>> /\ listener' = <<>>
  /\ UNCHANGED <<_suppressBreakpointSync, chromeChannel, src, modelVars, pcVars>>

\* invariant(this._cleanupDisposables == null) comes after the two assignments
setWebviewElementBody(w) ==
  /\ _webview' = w
  /\ chromeChannel' = w
  /\ IF _cleanupDisposables = NoWebview
     THEN /\ _cleanupDisposables' = w
          /\ subscriptions' = subscriptions \cup {w}
          /\ threw' = FALSE
     ELSE /\ UNCHANGED <<_cleanupDisposables, subscriptions>>
          /\ threw' = TRUE

_setWebviewElement(w) ==
  /\ Idle
  /\ setWebviewElementBody(w)
  /\ op' = "_setWebviewElement" /\ input' = <<"_setWebviewElement", w>>
  /\ Sends(<<>>)
  /\ calls' = <<>> /\ listener' = <<>>
  /\ UNCHANGED <<_webviewUrl, _disposables, _suppressBreakpointSync, inDom, src, modelVars,
                 pcVars>>

\* document.createElement yields an element that is nowhere referenced yet
FreshWebviews == Webviews \ (inDom \cup subscriptions \cup {chromeChannel, _webview})

renderChromeWebview(url) ==
  /\ Idle
  /\ IF _webview = NoWebview
     THEN \E w \in FreshWebviews :
            /\ src' = [src EXCEPT ![w] = url]
            /\ inDom' = inDom \cup {w}
            /\ setWebviewElementBody(w)
     ELSE /\ src' = IF url # _webviewUrl THEN [src EXCEPT ![_webview] = url] ELSE src
          /\ threw' = FALSE
          /\ UNCHANGED <<_webview, chromeChannel, _cleanupDisposables, subscriptions, inDom>>
  /\ _webviewUrl' = IF threw' THEN _webviewUrl ELSE url
  /\ op' = "renderChromeWebview" /\ input' = <<"renderChromeWebview", url>>
  /\ Sends(<<>>)
  /\ calls' = <<>> /\ listener' = <<>>
  /\ UNCHANGED <<_disposables, _suppressBreakpointSync, modelVars, pcVars>>

(* -------------------------- outbound commands ------------------------- *)
\* a Bridge method whose whole body is this._commandDispatcher.send(...)
Command(n, a, cmd) ==
  /\ Idle
  /\ Did(n, a)
  /\ Sends(<<cmd>>)
  /\ calls' = <<>> /\ listener' = <<>>
  /\ UNCHANGED <<bridgeVars, domVars, modelVars, pcVars>>

\* continue setting the mode itself instead of leaving it to DebuggerResumed
continueResumes ==
  /\ Idle
  /\ Did("continue", <<>>)
  /\ Sends(<<Cmd("Continue", <<>>)>>)
  /\ mode' = "RUNNING"
  /\ calls' = <<>> /\ listener' = <<>>
  /\ UNCHANGED <<bridgeVars, domVars, bpVars, storeVars, selectedThread, stopThread,
                 evalVars, pcVars>>

continue == Command("continue", <<>>, Cmd("Continue", <<>>))
stepOver == Command("stepOver", <<>>, Cmd("StepOver", <<>>))
\* stepInto sending the command of stepOver
stepIntoAsStepOver == Command("stepInto", <<>>, Cmd("StepOver", <<>>))

stepInto == Command("stepInto", <<>>, Cmd("StepInto", <<>>))
stepOut == Command("stepOut", <<>>, Cmd("StepOut", <<>>))

runToLocation(filePath, line) ==
  Command("runToLocation", <<filePath, line>>, Cmd("RunToLocation", <<filePath, line>>))

triggerAction(actionId) ==
  Command("triggerAction", <<actionId>>, Cmd("triggerDebuggerAction", <<actionId>>))

setSelectedCallFrameIndex(callFrameIndex) ==
  Command("setSelectedCallFrameIndex", <<callFrameIndex>>,
          Cmd("setSelectedCallFrameIndex", <<callFrameIndex>>))

setPauseOnException(enabled) ==
  Command("setPauseOnException", <<enabled>>, Cmd("setPauseOnException", <<enabled>>))

setPauseOnCaughtException(enabled) ==
  Command("setPauseOnCaughtException", <<enabled>>,
          Cmd("setPauseOnCaughtException", <<enabled>>))

setSingleThreadStepping(enabled) ==
  Command("setSingleThreadStepping", <<enabled>>,
          Cmd("setSingleThreadStepping", <<enabled>>))

(* ------------------------------ parseInt ------------------------------ *)
\* a thread id is a string: a sequence of characters
ThreadIdChars == {"4", "2", "a"}
Digits == {"0", "1", "2", "3", "4", "5", "6", "7", "8", "9"}
DigitValue(c) ==
  CASE c = "0" -> 0 [] c = "1" -> 1 [] c = "2" -> 2 [] c = "3" -> 3 [] c = "4" -> 4
    [] c = "5" -> 5 [] c = "6" -> 6 [] c = "7" -> 7 [] c = "8" -> 8 [] c = "9" -> 9

Strings(n) == UNION {[1..k -> ThreadIdChars] : k \in 0..n}
ThreadIds == Strings(MaxThreadIdLen)
               \cup {<<"4", "2">>, <<"a", "b", "c">>, <<" ", "4">>, <<"-", "4">>, <<"-">>}

RECURSIVE SkipWhite(_)
SkipWhite(s) == IF s # <<>> /\ Head(s) = " " THEN SkipWhite(Tail(s)) ELSE s

\* the value of the longest run of decimal digits s starts with, after acc
RECURSIVE DigitRun(_, _)
DigitRun(s, acc) ==
  IF s # <<>> /\ Head(s) \in Digits
  THEN DigitRun(Tail(s), 10 * acc + DigitValue(Head(s)))
  ELSE acc

\* parseInt(s, 10): Null stands for NaN
parseInt(s) ==
  LET t == SkipWhite(s)
      neg == t # <<>> /\ Head(t) = "-"
      signed == t # <<>> /\ Head(t) \in {"-", "+"}
      u == IF signed THEN Tail(t) ELSE t
  IN IF u # <<>> /\ Head(u) \in Digits
     THEN Some(IF neg THEN 0 - DigitRun(u, 0) ELSE DigitRun(u, 0))
     ELSE Null

Call(name, args) == [name |-> name, args |-> args]

\* selectThread without the isNaN test
selectThreadUnchecked(threadId) ==
  /\ Idle
  /\ Did("selectThread", threadId)
  /\ Sends(<<Cmd("selectThread", <<threadId>>)>>)
  /\ selectedThread' = parseInt(threadId)
  /\ calls' = <<Call("updateSelectedThread", parseInt(threadId))>>
  /\ listener' = <<>>
  /\ UNCHANGED <<bridgeVars, domVars, bpVars, storeVars, mode, stopThread, evalVars, pcVars>>

selectThread(threadId) ==
  /\ Idle
  /\ Did("selectThread", threadId)
  /\ Sends(<<Cmd("selectThread", <<threadId>>)>>)
  /\ LET threadNo == parseInt(threadId)
     IN IF threadNo # Null
        THEN /\ selectedThread' = threadNo
             /\ calls' = <<Call("updateSelectedThread", threadNo)>>
        ELSE /\ UNCHANGED selectedThread
             /\ calls' = <<>>
  /\ listener' = <<>>
  /\ UNCHANGED <<bridgeVars, domVars, bpVars, storeVars, mode, stopThread, evalVars, pcVars>>

(* ------------------------- inbound: _handleIpcMessage ----------------- *)
\* an 'ipc-message' event of webview w reaches _handleIpcMessage
Hears(w) == Idle /\ w \in subscriptions

\* a handler that sends nothing
Quiet == Sends(<<>>) /\ listener' = <<>>

(* evaluation requests and their responses *)
EvalCommands == {"runtimeEvaluate", "evaluateOnSelectedCallFrame", "getProperties"}
EvalIds == 1..MaxEvalId
Results == {"r1", "r2"}
Responses == [id : 1..(MaxEvalId + 1), result : Results]

\* the event the engine answers a command with
ResponseEvent(command) ==
  IF command = "getProperties" THEN "GetPropertiesResponse"
  ELSE "ExpressionEvaluationResponse"

Requested == DOMAIN pending \cup DOMAIN delivered
RequestOf(id) == IF id \in DOMAIN pending THEN pending[id] ELSE delivered[id].request

\* the engine answers a request in kind; an id never requested may come with either event
Answers(event, response) ==
  response.id \in Requested => ResponseEvent(RequestOf(response.id)) = event

\* the caller registers the request under evalId, then Bridge.sendEvaluationCommand
sendEvaluationCommand(command, evalId, args) ==
  /\ Idle
  /\ evalId \notin Requested
  /\ pending' = [i \in DOMAIN pending \cup {evalId} |->
                   IF i = evalId THEN command ELSE pending[i]]
  /\ Did("sendEvaluationCommand", <<command, evalId>> \o args)
  /\ Sends(<<Cmd(command, <<evalId>> \o args)>>)
  /\ calls' = <<>> /\ listener' = <<>>
  /\ UNCHANGED <<bridgeVars, domVars, bpVars, storeVars, debugVars, delivered, pcVars>>

\* the store resolves the pending request with that id, once; other ids are dropped
ReceiveResponse(via, id, response) ==
  IF id \in DOMAIN pending
  THEN /\ delivered' = [i \in DOMAIN delivered \cup {id} |->
                          IF i = id
                          THEN [request |-> pending[id], via |-> via, response |-> response]
                          ELSE delivered[i]]
       /\ pending' = [i \in DOMAIN pending \ {id} |-> pending[i]]
  ELSE UNCHANGED <<pending, delivered>>

\* _handleExpressionEvaluationResponse passing the id before response.id
_handleExpressionEvaluationResponseOffByOne(response) ==
  /\ ReceiveResponse("receiveExpressionEvaluationResponse", response.id - 1, response)
  /\ calls' = <<Call("receiveExpressionEvaluationResponse", <<response.id - 1, response>>)>>

_handleExpressionEvaluationResponse(response) ==
  /\ ReceiveResponse("receiveExpressionEvaluationResponse", response.id, response)
  /\ calls' = <<Call("receiveExpressionEvaluationResponse", <<response.id, response>>)>>

\* _handleGetPropertiesResponse calling the action of the other handler
_handleGetPropertiesResponseAsEvaluation(response) ==
  /\ ReceiveResponse("receiveExpressionEvaluationResponse", response.id, response)
  /\ calls' = <<Call("receiveExpressionEvaluationResponse", <<response.id, response>>)>>

_handleGetPropertiesResponse(response) ==
  /\ ReceiveResponse("receiveGetPropertiesResponse", response.id, response)
  /\ calls' = <<Call("receiveGetPropertiesResponse", <<response.id, response>>)>>

ExpressionEvaluationResponse(w, response) ==
  /\ Hears(w)
  /\ Answers("ExpressionEvaluationResponse", response)
  /\ _handleExpressionEvaluationResponse(response)
  /\ Did("ExpressionEvaluationResponse", response)
  /\ Quiet
  /\ UNCHANGED <<bridgeVars, domVars, bpVars, storeVars, debugVars, pcVars>>

GetPropertiesResponse(w, response) ==
  /\ Hears(w)
  /\ Answers("GetPropertiesResponse", response)
  /\ _handleGetPropertiesResponse(response)
  /\ Did("GetPropertiesResponse", response)
  /\ Quiet
  /\ UNCHANGED <<bridgeVars, domVars, bpVars, storeVars, debugVars, pcVars>>

(* pause and resume *)
StopThreadIds == {0, 7}
ThreadSwitchNotifications ==
  {[sourceURL |-> [scheme |-> "file", path |-> "/a.js"], lineNumber |-> 1,
    message |-> "switched"]}
PausedOptions ==
  {Null} \cup
  {Some([stopThreadId |-> t, threadSwitchNotification |-> n]) :
     t \in {Null} \cup {Some(i) : i \in StopThreadIds},
     n \in {Null} \cup {Some(x) : x \in ThreadSwitchNotifications}}

_handleStopThreadSwitch(n) ==
  IF n = Null THEN <<>>
  ELSE <<Call("notifyThreadSwitch", <<n[1].sourceURL, n[1].lineNumber, n[1].message>>)>>

\* _handleDebuggerPaused testing stopThreadId for truth instead of != null
_handleDebuggerPausedTruthy(options) ==
  /\ mode' = "PAUSED"
  /\ IF options # Null /\ options[1].stopThreadId \notin {Null, Some(0)}
     THEN stopThread' = options[1].stopThreadId
     ELSE UNCHANGED stopThread
  /\ calls' = <<Call("setDebuggerMode", <<"PAUSED">>)>>
              \o (IF options # Null /\ options[1].stopThreadId \notin {Null, Some(0)}
                  THEN <<Call("updateStopThread", options[1].stopThreadId)>> ELSE <<>>)
              \o (IF options # Null
                  THEN _handleStopThreadSwitch(options[1].threadSwitchNotification)
                  ELSE <<>>)

_handleDebuggerPaused(options) ==
  /\ mode' = "PAUSED"
  /\ IF options # Null /\ options[1].stopThreadId # Null
     THEN stopThread' = options[1].stopThreadId
     ELSE UNCHANGED stopThread
  /\ calls' = <<Call("setDebuggerMode", <<"PAUSED">>)>>
              \o (IF options # Null /\ options[1].stopThreadId # Null
                  THEN <<Call("updateStopThread", options[1].stopThreadId)>> ELSE <<>>)
              \o (IF options # Null
                  THEN _handleStopThreadSwitch(options[1].threadSwitchNotification)
                  ELSE <<>>)

NonLoaderDebuggerPaused(w, options) ==
  /\ Hears(w)
  /\ _handleDebuggerPaused(options)
  /\ Did("NonLoaderDebuggerPaused", options)
  /\ Quiet
  /\ UNCHANGED <<bridgeVars, domVars, bpVars, storeVars, selectedThread, evalVars, pcVars>>

_handleDebuggerResumed ==
  /\ mode' = "RUNNING"
  /\ calls' = <<Call("setDebuggerMode", <<"RUNNING">>)>>

DebuggerResumed(w) ==
  /\ Hears(w)
  /\ _handleDebuggerResumed
  /\ Did("DebuggerResumed", Null)
  /\ Quiet
  /\ UNCHANGED <<bridgeVars, domVars, bpVars, storeVars, selectedThread, stopThread,
                 evalVars, pcVars>>

(* the dispatch of _handleIpcMessage *)
\* the event names the inner switch has a case for
HandledEvents ==
  {"ready", "CallFrameSelected", "OpenSourceLocation", "ClearInterface", "DebuggerResumed",
   "LoaderBreakpointResumed", "BreakpointAdded", "BreakpointRemoved",
   "NonLoaderDebuggerPaused", "ExpressionEvaluationResponse", "GetPropertiesResponse",
   "CallstackUpdate", "ScopesUpdate", "ThreadsUpdate", "ThreadUpdate"}

\* the payload of CallFrameSelected and OpenSourceLocation: null, or a location
Locations == {[sourceURL |-> [scheme |-> "file", path |-> "/a.js"], lineNumber |-> 1]}
LocationOptions == {Null} \cup {Some(l) : l \in Locations}

\* messages that carry an event name alone, or an event name and a location
Messages ==
  [channel : {"notification", "other"},
   args : {<<"ClearInterface">>, <<"LoaderBreakpointResumed">>, <<"DebuggerResumed">>,
           <<"TargetCrashed">>}
          \cup {<<n, o>> : n \in {"CallFrameSelected", "OpenSourceLocation"},
                           o \in LocationOptions}]
    \ {[channel |-> "notification", args |-> <<"DebuggerResumed">>]}

\* the two switch statements without the test of event.channel
CaseAnyChannel(event) ==
  IF event.args[1] \in HandledEvents THEN event.args[1] ELSE ""

\* the case the two switch statements select for event, "" when they select none
Case(event) ==
  IF event.channel = "notification" /\ event.args[1] \in HandledEvents
  THEN event.args[1]
  ELSE ""

_handleLoaderBreakpointResumed == <<Call("loaderBreakpointResumed", <<>>)>>
_setSelectedCallFrameLine(options) == <<Call("setSelectedCallFrameLine", <<options>>)>>

\* _openSourceLocation without the test of options == null
_openSourceLocationUnchecked(options) == <<Call("openSourceLocation", <<options>>)>>

_openSourceLocation(options) ==
  IF options = Null THEN <<>>
  ELSE <<Call("openSourceLocation", <<options[1].sourceURL, options[1].lineNumber>>)>>
_handleClearInterface == <<Call("clearInterface", <<>>)>>

\* an 'ipc-message' event of webview w whose case changes no state of the
\* model that is kept here, or that has no case
_handleIpcMessage(w, event) ==
  /\ Hears(w)
  /\ IF Case(event) = "DebuggerResumed"
     THEN _handleDebuggerResumed
     ELSE /\ mode' = mode
          /\ calls' = CASE Case(event) = "ClearInterface" -> _handleClearInterface
                        [] Case(event) = "LoaderBreakpointResumed" ->
                             _handleLoaderBreakpointResumed
                        [] Case(event) = "CallFrameSelected" ->
                             _setSelectedCallFrameLine(event.args[2])
                        [] Case(event) = "OpenSourceLocation" ->
                             _openSourceLocation(event.args[2])
                        [] OTHER -> <<>>
  /\ Did("ipc-message", event)
  /\ Quiet
  /\ UNCHANGED <<bridgeVars, domVars, bpVars, storeVars, selectedThread, stopThread,
                 evalVars, pcVars>>

(* breakpoints *)
\* nuclideUri: a file URL with a path resolves to that path, anything else to null ("")
uriToNuclideUri(uri) == IF uri.scheme = "file" /\ uri.path # "" THEN uri.path ELSE ""
nuclideUriToUri(path) == [scheme |-> "file", path |-> path]

IPCBreakpoints ==
  [sourceURL : SourceURLs, lineNumber : Lines, condition : Conditions,
   enabled : BOOLEAN, resolved : ResolvedValues]

\* _removeBreakpoint reads sourceURL and lineNumber only
RemovedBreakpoints == {b \in IPCBreakpoints : b.enabled /\ b.resolved = JsTrue}

Key(path, line) == <<path, line>>
Put(f, k, v) == [x \in DOMAIN f \cup {k} |-> IF x = k THEN v ELSE f[x]]
Drop(f, k) == [x \in DOMAIN f \ {k} |-> f[x]]

\* the object sent for a breakpoint of the store (Bridge.js 336-341, 364-369)
IPCOf(path, line, condition, enabled) ==
  [sourceURL |-> nuclideUriToUri(path), lineNumber |-> line,
   condition |-> condition, enabled |-> enabled]

\* _handleUserBreakpointChange calling send twice
_handleUserBreakpointChangeTwice(params) ==
  LET cmd == Cmd(params.action,
                 <<IPCOf(params.breakpoint.path, params.breakpoint.line,
                         params.breakpoint.condition, params.breakpoint.enabled)>>)
  IN <<cmd, cmd>>

_handleUserBreakpointChange(params) ==
  <<Cmd(params.action,
        <<IPCOf(params.breakpoint.path, params.breakpoint.line,
                params.breakpoint.condition, params.breakpoint.enabled)>>)>>

\* the breakpoint store calls its onUserChange listeners with params
NotifyUserChange(params) ==
  IF _disposables
  THEN /\ Sends(_handleUserBreakpointChange(params))
       /\ listener' = <<[suppressed |-> _suppressBreakpointSync,
                         sent |-> Len(_handleUserBreakpointChange(params))]>>
  ELSE /\ Sends(<<>>)
       /\ listener' = <<>>

UserActions == {"AddBreakpoint", "UpdateBreakpoint", "DeleteBreakpoint"}

\* the store after the user's action on the breakpoint at key k
UserChanged(action, k, condition) ==
  CASE action = "AddBreakpoint" ->
         Put(breakpoints, k, [condition |-> condition, enabled |-> TRUE, resolved |-> FALSE])
    [] action = "UpdateBreakpoint" ->
         [breakpoints EXCEPT ![k].enabled = ~@, ![k].condition = condition]
    [] action = "DeleteBreakpoint" -> Drop(breakpoints, k)

\* the user adds, edits or deletes a breakpoint in the editor
userBreakpointChange(action, path, line, condition) ==
  LET k == Key(path, line)
      after == UserChanged(action, k, condition)
      bp == IF action = "DeleteBreakpoint" THEN breakpoints[k] ELSE after[k]
      params == [action |-> action,
                 breakpoint |-> [path |-> path, line |-> line,
                                 condition |-> bp.condition, enabled |-> bp.enabled]]
  IN /\ Idle
     /\ (action = "AddBreakpoint") = (k \notin DOMAIN breakpoints)
     /\ breakpoints' = after
     /\ replay' = IF action = "DeleteBreakpoint" THEN replay \ {k} ELSE replay \cup {k}
     /\ NotifyUserChange(params)
     /\ Did("userBreakpointChange", params)
     /\ calls' = <<>>
     /\ UNCHANGED <<bridgeVars, domVars, storeVars, debugVars, evalVars, pcVars>>

\* the reset after the call instead of in a finally block: skipped by a throw
bindNoFinally(throws) == throws

\* finally { this._suppressBreakpointSync = false; } of _bindBreakpoint
bindFinally(throws) == FALSE
\* finally { this._suppressBreakpointSync = false; } of _removeBreakpoint
removeFinally(throws) == FALSE

\* _bindBreakpoint without the test of path
_bindBreakpointAnyPath(breakpoint, resolved) ==
  /\ _suppressBreakpointSync' = TRUE
  /\ pc' = "bindBreakpointIPC"
  /\ cur' = Some([path |-> uriToNuclideUri(breakpoint.sourceURL),
                  line |-> breakpoint.lineNumber,
                  condition |-> breakpoint.condition,
                  enabled |-> breakpoint.enabled, resolved |-> resolved])

\* _bindBreakpoint up to its call of bindBreakpointIPC
_bindBreakpoint(breakpoint, resolved) ==
  LET path == uriToNuclideUri(breakpoint.sourceURL)
  IN IF path # ""
     THEN /\ _suppressBreakpointSync' = TRUE
          /\ pc' = "bindBreakpointIPC"
          /\ cur' = Some([path |-> path, line |-> breakpoint.lineNumber,
                          condition |-> breakpoint.condition,
                          enabled |-> breakpoint.enabled, resolved |-> resolved])
     ELSE UNCHANGED <<_suppressBreakpointSync, pc, cur>>

\* _removeBreakpoint deleting the line before the one the engine named
_removeBreakpointOffByOne(breakpoint) ==
  LET path == uriToNuclideUri(breakpoint.sourceURL)
  IN IF path # ""
     THEN /\ _suppressBreakpointSync' = TRUE
          /\ pc' = "deleteBreakpointIPC"
          /\ cur' = Some([path |-> path, line |-> breakpoint.lineNumber - 1])
     ELSE UNCHANGED <<_suppressBreakpointSync, pc, cur>>

\* _removeBreakpoint up to its call of deleteBreakpointIPC
_removeBreakpoint(breakpoint) ==
  LET path == uriToNuclideUri(breakpoint.sourceURL)
  IN IF path # ""
     THEN /\ _suppressBreakpointSync' = TRUE
          /\ pc' = "deleteBreakpointIPC"
          /\ cur' = Some([path |-> path, line |-> breakpoint.lineNumber])
     ELSE UNCHANGED <<_suppressBreakpointSync, pc, cur>>

\* the key an event's payload names when its sourceURL is a local file
Implied(breakpoint) == Key(breakpoint.sourceURL.path, breakpoint.lineNumber)
IsLocal(breakpoint) == breakpoint.sourceURL.scheme = "file"

\* event.args[1].resolved tested for truth instead of === true
isResolvedTruthy(breakpoint) == breakpoint.resolved \in {JsTrue, JsOne}

\* event.args[1].resolved === true
isResolved(breakpoint) == breakpoint.resolved = JsTrue

BreakpointAdded(w, breakpoint) ==
  /\ Hears(w)
  /\ _bindBreakpoint(breakpoint, isResolved(breakpoint))
  /\ replay' = IF IsLocal(breakpoint) THEN replay \cup {Implied(breakpoint)} ELSE replay
  /\ Did("BreakpointAdded", breakpoint)
  /\ Quiet
  /\ calls' = <<>>
  /\ UNCHANGED <<_webview, _webviewUrl, _cleanupDisposables, _disposables, chromeChannel,
                 domVars, breakpoints, storeVars, debugVars, evalVars>>

BreakpointRemoved(w, breakpoint) ==
  /\ Hears(w)
  /\ _removeBreakpoint(breakpoint)
  /\ replay' = IF IsLocal(breakpoint) THEN replay \ {Implied(breakpoint)} ELSE replay
  /\ Did("BreakpointRemoved", breakpoint)
  /\ Quiet
  /\ calls' = <<>>
  /\ UNCHANGED <<_webview, _webviewUrl, _cleanupDisposables, _disposables, chromeChannel,
                 domVars, breakpoints, storeVars, debugVars, evalVars>>

\* the model applies the engine's bind; its change listeners run inside the
\* call, one of them may throw; then the finally block of _bindBreakpoint
bindBreakpointIPC(notify, throws) ==
  LET b == cur[1]
      k == Key(b.path, b.line)
      params == [action |-> IF k \in DOMAIN breakpoints
                            THEN "UpdateBreakpoint" ELSE "AddBreakpoint",
                 breakpoint |-> b]
  IN /\ pc = "bindBreakpointIPC"
     /\ breakpoints' = Put(breakpoints, k, [condition |-> b.condition,
                                            enabled |-> b.enabled,
                                            resolved |-> b.resolved])
     /\ calls' = <<Call("bindBreakpointIPC",
                        <<b.path, b.line, b.condition, b.enabled, b.resolved>>)>>
     /\ IF notify THEN NotifyUserChange(params) ELSE Quiet
     /\ threw' = throws
     /\ _suppressBreakpointSync' = bindFinally(throws)
     /\ pc' = "idle"
     /\ cur' = Null
     /\ UNCHANGED <<_webview, _webviewUrl, _cleanupDisposables, _disposables, chromeChannel,
                    domVars, replay, storeVars, debugVars, evalVars, op, input>>

\* the same for the engine's delete and the finally block of _removeBreakpoint
deleteBreakpointIPC(notify, throws) ==
  LET b == cur[1]
      k == Key(b.path, b.line)
  IN /\ pc = "deleteBreakpointIPC"
     /\ breakpoints' = Drop(breakpoints, k)
     /\ calls' = <<Call("deleteBreakpointIPC", <<b.path, b.line>>)>>
     /\ IF notify /\ k \in DOMAIN breakpoints
        THEN NotifyUserChange([action |-> "DeleteBreakpoint",
                               breakpoint |-> [path |-> b.path, line |-> b.line,
                                               condition |-> breakpoints[k].condition,
                                               enabled |-> breakpoints[k].enabled]])
        ELSE Quiet
     /\ threw' = throws
     /\ _suppressBreakpointSync' = removeFinally(throws)
     /\ pc' = "idle"
     /\ cur' = Null
     /\ UNCHANGED <<_webview, _webviewUrl, _cleanupDisposables, _disposables, chromeChannel,
                    domVars, replay, storeVars, debugVars, evalVars, op, input>>

(* the handshake *)
Settings == {"{}", "{\"SupportThreadsWindow\":true}"}
FlagNames == {"exception", "caught", "singleThread"}

\* the user changes a setting or a pause flag of the store
storeSettings(s) ==
  /\ Idle
  /\ settings' = s
  /\ Did("storeSettings", s)
  /\ Quiet /\ calls' = <<>>
  /\ UNCHANGED <<bridgeVars, domVars, bpVars, pauseFlags, debugVars, evalVars, pcVars>>

storeToggle(f) ==
  /\ Idle
  /\ pauseFlags' = [pauseFlags EXCEPT ![f] = ~@]
  /\ Did("storeToggle", f)
  /\ Quiet /\ calls' = <<>>
  /\ UNCHANGED <<bridgeVars, domVars, bpVars, settings, debugVars, evalVars, pcVars>>

\* getAllBreakpoints, by ascending line within a path
RECURSIVE Listed(_)
Listed(keys) ==
  IF keys = {} THEN <<>>
  ELSE LET k == CHOOSE x \in keys : \A y \in keys : x[2] <= y[2]
       IN <<k>> \o Listed(keys \ {k})

_updateDebuggerSettings == <<Cmd("UpdateSettings", <<settings>>)>>

\* _sendAllBreakpoints without the test of _suppressBreakpointSync
_sendAllBreakpointsUngated ==
  LET ks == Listed(DOMAIN breakpoints)
      results == [i \in 1..Len(ks) |->
                    IPCOf(ks[i][1], ks[i][2], breakpoints[ks[i]].condition,
                          breakpoints[ks[i]].enabled)]
  IN <<Cmd("SyncBreakpoints", <<results>>)>>

_sendAllBreakpoints ==
  IF ~_suppressBreakpointSync
  THEN LET ks == Listed(DOMAIN breakpoints)
           results == [i \in 1..Len(ks) |->
                         IPCOf(ks[i][1], ks[i][2], breakpoints[ks[i]].condition,
                               breakpoints[ks[i]].enabled)]
       IN <<Cmd("SyncBreakpoints", <<results>>)>>
  ELSE <<>>

\* setPauseOnCaughtException sent with the flag of setPauseOnException
_syncDebuggerStateSwapped ==
  <<Cmd("setPauseOnException", <<pauseFlags.exception>>),
    Cmd("setPauseOnCaughtException", <<pauseFlags.exception>>),
    Cmd("setSingleThreadStepping", <<pauseFlags.singleThread>>)>>

_syncDebuggerState ==
  <<Cmd("setPauseOnException", <<pauseFlags.exception>>),
    Cmd("setPauseOnCaughtException", <<pauseFlags.caught>>),
    Cmd("setSingleThreadStepping", <<pauseFlags.singleThread>>)>>

\* openDevTools: nothing without a webview, else this._webview.openDevTools()
openDevTools == IF _webview = NoWebview THEN <<>> ELSE <<Call("openDevTools", <<_webview>>)>>

\* case 'ready' of _handleIpcMessage
handleReady(openDevToolsOnDebuggerStart) ==
  /\ calls' = IF openDevToolsOnDebuggerStart THEN openDevTools ELSE <<>>
  /\ Sends(_updateDebuggerSettings \o _sendAllBreakpoints \o _syncDebuggerState)
  /\ Did("ready", openDevToolsOnDebuggerStart)
  /\ listener' = <<>>
  /\ UNCHANGED <<bridgeVars, domVars, modelVars, pcVars>>

ready(w, openDevToolsOnDebuggerStart) ==
  /\ Hears(w)
  /\ handleReady(openDevToolsOnDebuggerStart)

\* a ready message handled while a bindBreakpointIPC or deleteBreakpointIPC
\* made by the Bridge has not returned yet
readyInFlight(w, openDevToolsOnDebuggerStart) ==
  /\ ~Idle
  /\ w \in subscriptions
  /\ handleReady(openDevToolsOnDebuggerStart)

\* the Bridge after its constructor, over an empty model
Constructed ==
  /\ _webview = NoWebview
  /\ _webviewUrl = NoUrl
  /\ _cleanupDisposables = NoWebview
  /\ _disposables = TRUE
  /\ _suppressBreakpointSync = FALSE
  /\ chromeChannel = NoWebview
  /\ subscriptions = {}
  /\ inDom = {}
  /\ src = [w \in Webviews |-> NoUrl]
  /\ breakpoints = <<>>
  /\ mode = "STOPPED"
  /\ selectedThread = Null
  /\ stopThread = Null
  /\ settings \in {"{}"}
  /\ pauseFlags = [exception |-> FALSE, caught |-> FALSE, singleThread |-> FALSE]
  /\ pending = <<>>
  /\ delivered = <<>>
  /\ pc = "idle"
  /\ cur = Null
  /\ op = "constructor"
  /\ input = <<"constructor", Null>>
  /\ emitted = <<>>
  /\ wire = <<>>
  /\ threw = FALSE
  /\ calls = <<>>
  /\ listener = <<>>
  /\ replay = {}

(* ---------------------------- PanelComponent -------------------------- *)
initialSize == 200
Positions == {"top", "right", "bottom", "left"}
\* containerEl.getBoundingClientRect()
Rect == [left |-> 1, top |-> 2, right |-> 5, bottom |-> 4]
MouseEvents == [buttons : {0, 1}, pageX : 0..MaxPage, pageY : 0..MaxPage]

\* the panel after its constructor, mounted
PanelConstructed ==
  /\ position = "left"
  /\ isResizing = FALSE
  /\ size = initialSize
  /\ _resizeSubscriptions = "null"
  /\ windowListeners = {}
  /\ mounted = TRUE
  /\ panelOp = "constructor"
  /\ panelEvent = <<"constructor", Null>>
  /\ onResize = <<>>

\* this._resizeSubscriptions.dispose(): the two removeEventListener calls, once
ResizeSubscriptionsDispose ==
  IF _resizeSubscriptions = "active" THEN {} ELSE windowListeners

\* the parent renders the panel with another position
receiveProps(p) ==
  /\ mounted
  /\ p # position
  /\ position' = p
  /\ panelOp' = "receiveProps" /\ panelEvent' = <<"receiveProps", p>> /\ onResize' = <<>>
  /\ UNCHANGED <<isResizing, size, _resizeSubscriptions, windowListeners, mounted, bridgeAll>>

\* onMouseDown of the resize handle
_handleMouseDown(event) ==
  /\ mounted
  /\ windowListeners' = ResizeSubscriptionsDispose \cup {"mousemove", "mouseup"}
  /\ _resizeSubscriptions' = "active"
  /\ isResizing' = TRUE
  /\ panelOp' = "_handleMouseDown" /\ panelEvent' = <<"_handleMouseDown", event>> /\ onResize' = <<>>
  /\ UNCHANGED <<position, size, mounted, bridgeAll>>

\* _handleMouseUp without the dispose of _resizeSubscriptions
mouseUpKeepsListeners ==
  /\ windowListeners' = windowListeners
  /\ _resizeSubscriptions' = _resizeSubscriptions
  /\ isResizing' = FALSE

\* the body of _handleMouseUp
mouseUp ==
  /\ windowListeners' = IF _resizeSubscriptions # "null"
                         THEN ResizeSubscriptionsDispose ELSE windowListeners
  /\ _resizeSubscriptions' = IF _resizeSubscriptions = "null" THEN "null" ELSE "disposed"
  /\ isResizing' = FALSE

\* the size _handleMouseMove computes for its event
newSize(event) ==
  CASE position = "left" -> event.pageX - Rect.left
    [] position = "top" -> event.pageY - Rect.top
    [] position = "bottom" -> Rect.bottom - event.pageY
    [] position = "right" -> Rect.right - event.pageX

\* _updateSize
_updateSize(n) ==
  /\ size' = n
  /\ onResize' = <<n>>

\* a mousemove of window reaches the registered listener
_handleMouseMove(event) ==
  /\ "mousemove" \in windowListeners
  /\ IF event.buttons = 0
     THEN /\ mouseUp
          /\ UNCHANGED size
          /\ onResize' = <<>>
     ELSE /\ _updateSize(newSize(event))
          /\ UNCHANGED <<isResizing, _resizeSubscriptions, windowListeners>>
  /\ panelOp' = "_handleMouseMove" /\ panelEvent' = <<"_handleMouseMove", event>>
  /\ UNCHANGED <<position, mounted, bridgeAll>>

\* a mouseup of window reaches the registered listener
_handleMouseUp(event) ==
  /\ "mouseup" \in windowListeners
  /\ mouseUp
  /\ panelOp' = "_handleMouseUp" /\ panelEvent' = <<"_handleMouseUp", event>> /\ onResize' = <<>>
  /\ UNCHANGED <<position, size, mounted, bridgeAll>>

componentWillUnmount ==
  /\ mounted
  /\ mounted' = FALSE
  /\ windowListeners' = IF _resizeSubscriptions # "null"
                         THEN ResizeSubscriptionsDispose ELSE windowListeners
  /\ _resizeSubscriptions' = IF _resizeSubscriptions = "null" THEN "null" ELSE "disposed"
  /\ panelOp' = "componentWillUnmount" /\ panelEvent' = <<"componentWillUnmount", Null>> /\ onResize' = <<>>
  /\ UNCHANGED <<position, isResizing, size, bridgeAll>>

Panel ==
  \/ \E p \in Positions : receiveProps(p)
  \/ \E e \in MouseEvents : _handleMouseDown(e)
  \/ \E e \in MouseEvents : _handleMouseMove(e)
  \/ \E e \in MouseEvents : _handleMouseUp(e)
  \/ componentWillUnmount

Init == Constructed /\ PanelConstructed /\ trace = Null

\* the same with a recorder on the dispatcher
InitTraced == Constructed /\ PanelConstructed /\ trace = Some(<<>>)

Binding ==
  \/ cleanup
  \/ \E w \in Webviews : _setWebviewElement(w)

Attach ==
  \/ Binding
  \/ dispose

Lifecycle ==
  \/ Attach
  \/ \E url \in Urls : renderChromeWebview(url)

ActionIds == {"restart"}
FrameIndexes == {0, 1}
EvalArgs == {<<"x + 1">>}

Commands ==
  \/ continue \/ stepOver \/ stepInto \/ stepOut
  \/ \E p \in LocalPaths, l \in Lines : runToLocation(p, l)
  \/ \E a \in ActionIds : triggerAction(a)
  \/ \E i \in FrameIndexes : setSelectedCallFrameIndex(i)
  \/ \E b \in BOOLEAN : setPauseOnException(b)
  \/ \E b \in BOOLEAN : setPauseOnCaughtException(b)
  \/ \E b \in BOOLEAN : setSingleThreadStepping(b)
  \/ \E t \in ThreadIds : selectThread(t)

Evaluation ==
  \/ \E c \in EvalCommands, i \in EvalIds, a \in EvalArgs : sendEvaluationCommand(c, i, a)
  \/ \E w \in Webviews, r \in Responses : ExpressionEvaluationResponse(w, r)
  \/ \E w \in Webviews, r \in Responses : GetPropertiesResponse(w, r)

Pausing ==
  \/ \E w \in Webviews, o \in PausedOptions : NonLoaderDebuggerPaused(w, o)
  \/ \E w \in Webviews : DebuggerResumed(w)
  \/ \E w \in Webviews, e \in Messages : _handleIpcMessage(w, e)

UserChanges ==
  \E a \in UserActions, p \in LocalPaths, l \in Lines, c \in Conditions :
    userBreakpointChange(a, p, l, c)

Breakpoints ==
  \/ \E w \in Webviews, b \in IPCBreakpoints : BreakpointAdded(w, b)
  \/ \E w \in Webviews, b \in RemovedBreakpoints : BreakpointRemoved(w, b)
  \/ \E n \in BOOLEAN, t \in BOOLEAN : bindBreakpointIPC(n, t)
  \/ \E n \in BOOLEAN, t \in BOOLEAN : deleteBreakpointIPC(n, t)
  \/ UserChanges

Handshake ==
  \/ \E w \in Webviews, d \in BOOLEAN : ready(w, d)
  \/ \E s \in Settings : storeSettings(s)
  \/ \E f \in FlagNames : storeToggle(f)

Reentrant ==
  \E w \in Webviews, d \in BOOLEAN : readyInFlight(w, d)

Next ==
  \/ Lifecycle
  \/ Commands
  \/ Evaluation
  \/ Pausing
  \/ Breakpoints
  \/ Handshake
  \/ Reentrant
  \/ Panel

Spec == Init /\ [][Next]_vars

\* the Bridge's lifecycle with its outbound command methods
CommandsNext == Attach \/ Commands
SpecCommands == Init /\ [][CommandsNext]_vars

\* the Bridge's lifecycle with evaluation requests and responses
EvaluationNext == Attach \/ Evaluation
SpecEvaluation == Init /\ [][EvaluationNext]_vars

\* the Bridge's lifecycle with the engine's pause and resume events
PausingNext == Attach \/ Pausing
SpecPausing == Init /\ [][PausingNext]_vars

\* the Bridge's lifecycle with the breakpoint events of the engine and the user's changes
BreakpointsNext == Attach \/ Breakpoints
SpecBreakpoints == Init /\ [][BreakpointsNext]_vars

\* the Bridge's lifecycle with the ready handshake over a changing store
HandshakeNext == Attach \/ Handshake \/ UserChanges
SpecHandshake == Init /\ [][HandshakeNext]_vars

\* the ready handshake between and inside the model's breakpoint mutations
ResyncNext ==
  \/ Binding
  \/ \E w \in Webviews, b \in IPCBreakpoints : BreakpointAdded(w, b)
  \/ \E n \in BOOLEAN, t \in BOOLEAN : bindBreakpointIPC(n, t)
  \/ \E w \in Webviews, d \in BOOLEAN : ready(w, d)
  \/ Reentrant
SpecResync == Init /\ [][ResyncNext]_vars

\* sessions one after the other: the whole lifecycle with the engine's pause and resume events
ReconnectNext == Lifecycle \/ Pausing
SpecReconnect == Init /\ [][ReconnectNext]_vars

\* the methods that send one command and do nothing else
Outbound ==
  \/ continue \/ stepOver \/ stepInto \/ stepOut
  \/ runToLocation("/a.js", 1)
  \/ triggerAction("restart")
  \/ setSelectedCallFrameIndex(1)
  \/ \E b \in BOOLEAN : setPauseOnException(b)
  \/ \E b \in BOOLEAN : setPauseOnCaughtException(b)
  \/ \E b \in BOOLEAN : setSingleThreadStepping(b)

\* every UI-intent method of the Bridge
Intents ==
  \/ Outbound
  \/ \E t \in {<<"4", "2">>, <<"a", "b", "c">>} : selectThread(t)
  \/ \E c \in EvalCommands : sendEvaluationCommand(c, 1, <<"x + 1">>)

\* binding and unbinding, the UI's intents and the engine's pause and resume events
ModesNext == Binding \/ Intents \/ Pausing
SpecModes == Init /\ [][ModesNext]_vars

\* binding and unbinding and the outbound intents, with a recorder on the dispatcher
OrderNext == Binding \/ Outbound
SpecOrder == InitTraced /\ [][OrderNext]_vars

\* the Bridge's lifecycle and the user's breakpoint changes, with a recorder on the dispatcher
UserEdits ==
  \E a \in UserActions, l \in {1, 2} : userBreakpointChange(a, "/a.js", l, "x>1")

UserOrderNext == Attach \/ UserEdits
SpecUserOrder == InitTraced /\ [][UserOrderNext]_vars

\* the PanelComponent alone
SpecPanel == Init /\ [][Panel]_vars

\* the Bridge's lifecycle alone, with renderChromeWebview
LifecycleNext == Lifecycle \/ continue
SpecLifecycle == Init /\ [][LifecycleNext]_vars

(* ------------------------------- claims ------------------------------- *)
Names(cs) == {cs[i].name : i \in 1..Len(cs)}

C2_ListenerHonoursSuppression ==
  \A i \in 1..Len(listener) :
    listener[i].sent = IF listener[i].suppressed THEN 0 ELSE 1

\* C3: whenever no breakpoint event is in progress, the keys (path, line) of the
\* model's breakpoints are the set obtained by replaying the BreakpointAdded and
\* BreakpointRemoved events with a local sourceURL (and the user's own changes)
\* in arrival order.
C3_BreakpointsAreReplay ==
  pc = "idle" => DOMAIN breakpoints = replay

\* a BreakpointRemoved was applied and left the other breakpoint in place
C3_Witness ==
  /\ pc = "idle"
  /\ op = "BreakpointRemoved"
  /\ Names(calls) = {"deleteBreakpointIPC"}
  /\ arg.lineNumber = 1
  /\ DOMAIN breakpoints = {Key("/a.js", 2)}

\* C4: selectThread(id) passes one selectThread command with args [id] to the
\* dispatcher, and sets the model's selected thread to parseInt(id, 10) when
\* that is a number, leaving it unchanged when it is NaN; "42" gives 42 and
\* "abc" leaves the field as it was.
C4_SelectThreadSent ==
  op = "selectThread" =>
    /\ emitted = <<Cmd("selectThread", <<arg>>)>>
    /\ (arg = <<"4", "2">> => selectedThread = Some(42))

C4_SelectThreadStep ==
  op' = "selectThread" =>
    /\ selectedThread' =
         IF parseInt(arg') # Null THEN parseInt(arg') ELSE selectedThread
    /\ (arg' = <<"a", "b", "c">> => selectedThread' = selectedThread)

C4_SelectThread == []C4_SelectThreadSent /\ [][C4_SelectThreadStep]_vars

\* selectThread("abc") after selectThread("42"): the command is sent, 42 stays
C4_Witness ==
  /\ op = "selectThread"
  /\ arg = <<"a", "b", "c">>
  /\ selectedThread = Some(42)
  /\ Len(emitted) = 1

\* C5: a response event whose id belongs to an outstanding request is delivered
\* to that request and to no other, whatever the order of arrival; every
\* delivered response carries the id of its request and came through the
\* action of the request's kind.
ViaOf(command) ==
  IF command = "getProperties" THEN "receiveGetPropertiesResponse"
  ELSE "receiveExpressionEvaluationResponse"

C5_DeliveredById ==
  \A id \in DOMAIN delivered :
    /\ delivered[id].response.id = id
    /\ delivered[id].via = ViaOf(delivered[id].request)

C5_ResponseStep ==
  (op' \in {"ExpressionEvaluationResponse", "GetPropertiesResponse"}
     /\ arg'.id \in DOMAIN pending) =>
    /\ arg'.id \in DOMAIN delivered'
    /\ delivered'[arg'.id].response = arg'
    /\ delivered'[arg'.id].request = pending[arg'.id]
    /\ DOMAIN pending' = DOMAIN pending \ {arg'.id}
    /\ \A j \in DOMAIN pending' : pending'[j] = pending[j]
    /\ \A j \in DOMAIN delivered : delivered'[j] = delivered[j]

CommandMethods ==
  {"continue", "stepOver", "stepInto", "stepOut", "runToLocation", "triggerAction",
   "setSelectedCallFrameIndex", "setPauseOnException", "setPauseOnCaughtException",
   "setSingleThreadStepping", "selectThread", "sendEvaluationCommand"}

\* C6: once dispose() was called (and nothing was bound since), an outbound
\* command method neither throws nor writes anything to a transport.
C6_NoDispatchAfterDispose ==
  (~_disposables /\ _cleanupDisposables = NoWebview /\ op \in CommandMethods) =>
    (~threw /\ wire = <<>>)

\* C7: a NonLoaderDebuggerPaused event sets the mode to PAUSED, also with a null
\* payload; it updates the stop thread exactly when the payload has a non-null
\* stopThreadId and surfaces a thread-switch notice exactly when the payload has
\* a non-null threadSwitchNotification.
HasStopThread(options) == options # Null /\ options[1].stopThreadId # Null
HasNotice(options) == options # Null /\ options[1].threadSwitchNotification # Null

C7_PausedState ==
  op = "NonLoaderDebuggerPaused" =>
    /\ mode = "PAUSED"
    /\ HasStopThread(arg) => stopThread = arg[1].stopThreadId
    /\ ("updateStopThread" \in Names(calls)) = HasStopThread(arg)
    /\ ("notifyThreadSwitch" \in Names(calls)) = HasNotice(arg)
    /\ (arg = Some([stopThreadId |-> Some(7), threadSwitchNotification |-> Null]) =>
          stopThread = Some(7) /\ "notifyThreadSwitch" \notin Names(calls))

C7_PausedStep ==
  (op' = "NonLoaderDebuggerPaused" /\ ~HasStopThread(arg')) => stopThread' = stopThread

C7_DebuggerPaused == []C7_PausedState /\ [][C7_PausedStep]_vars

\* the payload {stopThreadId: 7, threadSwitchNotification: null} was handled
C7_Witness ==
  /\ op = "NonLoaderDebuggerPaused"
  /\ arg = Some([stopThreadId |-> Some(7), threadSwitchNotification |-> Null])
  /\ mode = "PAUSED"
  /\ stopThread = Some(7)

\* C8: _suppressBreakpointSync is set exactly while a bindBreakpointIPC or
\* deleteBreakpointIPC made for an engine event is in progress; it is false in
\* every other state, also after a mutation that threw.
C8_FlagScoped ==
  _suppressBreakpointSync = (pc \in {"bindBreakpointIPC", "deleteBreakpointIPC"})

\* a bindBreakpointIPC threw and the flag is released
C8_Witness ==
  /\ op = "BreakpointAdded"
  /\ pc = "idle"
  /\ threw
  /\ Names(calls) = {"bindBreakpointIPC"}
  /\ ~_suppressBreakpointSync

\* the endpoints the Bridge is connected to: those it listens on, the one it sends on
ActiveEndpoints == subscriptions \cup ({chromeChannel} \ {NoWebview})

\* C9: a _setWebviewElement on an attached Bridge throws, and at any time at
\* most one transport endpoint and at most one subscription is active.
C9_OneEndpoint ==
  /\ (op = "_setWebviewElement" /\ threw) => Cardinality(subscriptions) = 1
  /\ Cardinality(subscriptions) <= 1
  /\ Cardinality(ActiveEndpoints) <= 1

\* C10: while the Bridge is detached (never bound, or after cleanup()), an
\* outbound command method neither throws nor writes anything to a transport.
C10_NoDispatchWhileDetached ==
  (_cleanupDisposables = NoWebview /\ op \in CommandMethods) => (~threw /\ wire = <<>>)

\* C11: the model's DebuggerMode changes only in the handling of an engine
\* event, to PAUSED by NonLoaderDebuggerPaused and to RUNNING by
\* DebuggerResumed; no UI-intent method of the Bridge changes it.
C11_ModeStep ==
  /\ mode' # mode =>
        \/ op' = "NonLoaderDebuggerPaused" /\ mode' = "PAUSED"
        \/ op' = "DebuggerResumed" /\ mode' = "RUNNING"
  /\ op' \in CommandMethods => mode' = mode

C11_ModeByEngineOnly == [][C11_ModeStep]_vars

\* continue was called while paused and written to the transport: still PAUSED
C11_Witness ==
  /\ op = "continue"
  /\ Len(wire) = 1
  /\ mode = "PAUSED"

\* C12: an inbound message whose channel is not "notification", or whose event
\* name is not one of the handled names, is ignored: it mutates nothing in the
\* model, sends no command, and leaves the suppression flag and the binding
\* as they were.
C12_IgnoredStep ==
  (op' = "ipc-message"
     /\ ~(arg'.channel = "notification" /\ arg'.args[1] \in HandledEvents)) =>
    /\ UNCHANGED <<bridgeVars, domVars, modelVars, pcVars>>
    /\ emitted' = <<>> /\ wire' = <<>>
    /\ calls' = <<>>
    /\ ~threw'

C12_UnhandledIgnored == [][C12_IgnoredStep]_vars

\* a DebuggerResumed on another channel arrived while paused and was ignored
C12_Witness ==
  /\ op = "ipc-message"
  /\ arg = [channel |-> "other", args |-> <<"DebuggerResumed">>]
  /\ mode = "PAUSED"

\* C13: a BreakpointAdded or BreakpointRemoved event whose sourceURL does not
\* resolve to a local path is skipped: the model's breakpoints stay as they
\* were, no model action is called, _suppressBreakpointSync is not set and no
\* command is sent.
NotLocal(breakpoint) == uriToNuclideUri(breakpoint.sourceURL) = ""

C13_SkippedState ==
  (op \in {"BreakpointAdded", "BreakpointRemoved"} /\ NotLocal(arg)) =>
    /\ pc = "idle"
    /\ ~_suppressBreakpointSync
    /\ calls = <<>>
    /\ emitted = <<>> /\ wire = <<>>
    /\ ~threw

C13_SkippedStep ==
  (op' \in {"BreakpointAdded", "BreakpointRemoved"} /\ NotLocal(arg')) =>
    /\ breakpoints' = breakpoints
    /\ _suppressBreakpointSync' = _suppressBreakpointSync

C13_NonLocalSkipped == []C13_SkippedState /\ [][C13_SkippedStep]_vars

\* an http breakpoint was announced on a line where the store has a breakpoint
C13_Witness ==
  /\ op = "BreakpointAdded"
  /\ arg.sourceURL.scheme = "http"
  /\ arg.lineNumber = 1
  /\ ~arg.enabled
  /\ Key("/a.js", 1) \in DOMAIN breakpoints
  /\ breakpoints[Key("/a.js", 1)].enabled

\* C14: the handling of ready sends SyncBreakpoints exactly once when
\* _suppressBreakpointSync is unset and not at all when it is set; UpdateSettings
\* before it and the three pause-flag commands after it are sent either way.
SyncCount(cmds) == Cardinality({i \in 1..Len(cmds) : cmds[i].channel = "SyncBreakpoints"})

C14_ReadyStep ==
  (op' = "ready" /\ pc' = pc) =>
    LET n == Len(emitted')
    IN /\ SyncCount(emitted') = IF _suppressBreakpointSync THEN 0 ELSE 1
       /\ n = 4 + SyncCount(emitted')
       /\ emitted'[1].channel = "UpdateSettings"
       /\ emitted'[n - 2].channel = "setPauseOnException"
       /\ emitted'[n - 1].channel = "setPauseOnCaughtException"
       /\ emitted'[n].channel = "setSingleThreadStepping"

C14_SyncGated == [][C14_ReadyStep]_vars

\* ready was handled inside a bindBreakpointIPC, with a breakpoint in the store
C14_Witness ==
  /\ op = "ready"
  /\ pc = "bindBreakpointIPC"
  /\ _suppressBreakpointSync
  /\ DOMAIN breakpoints # {}
  /\ Len(emitted) = 4
  /\ Len(wire) = 4

\* C15: a cleanup() or dispose() that directly follows one changes nothing and
\* does not throw; after a cleanup() the next bind succeeds, and the Bridge
\* then sends on and listens to the new webview alone, so that its events are
\* handled again.
C15_IdempotentStep ==
  /\ op' \in {"cleanup", "dispose"} => ~threw'
  /\ (op' = "cleanup" /\ op \in {"cleanup", "dispose"}) =>
       UNCHANGED <<bridgeVars, domVars, modelVars>>
  /\ (op' = "dispose" /\ op = "dispose") =>
       UNCHANGED <<bridgeVars, domVars, modelVars>>
  /\ op' = "cleanup" => _disposables' = _disposables

C15_RebindStep ==
  (op = "cleanup" /\ op' \in {"_setWebviewElement", "renderChromeWebview"}) =>
    /\ ~threw'
    /\ _webview' # NoWebview
    /\ _cleanupDisposables' = _webview'
    /\ chromeChannel' = _webview'
    /\ subscriptions' = {_webview'}

C15_Reusable == [][C15_IdempotentStep /\ C15_RebindStep]_vars

\* webview 1 was rendered and torn down, webview 2 rendered after it, and a
\* DebuggerResumed of webview 2 was handled
C15_Witness ==
  /\ op = "DebuggerResumed"
  /\ mode = "RUNNING"
  /\ src[1] # NoUrl /\ src[2] # NoUrl
  /\ inDom = {2}
  /\ subscriptions = {2}
  /\ _disposables

\* C16: each of the ten outbound intents passes exactly one command to the
\* dispatcher, with the name the specification gives for it and the intent's
\* arguments in their positions, and the dispatcher's calls are in the order
\* of the intents: each intent adds its command after all earlier ones.
OutboundIntents ==
  {"continue", "stepOver", "stepInto", "stepOut", "runToLocation", "triggerAction",
   "setSelectedCallFrameIndex", "setPauseOnException", "setPauseOnCaughtException",
   "setSingleThreadStepping"}

CommandName(intent) ==
  CASE intent = "continue" -> "Continue"
    [] intent = "stepOver" -> "StepOver"
    [] intent = "stepInto" -> "StepInto"
    [] intent = "stepOut" -> "StepOut"
    [] intent = "runToLocation" -> "RunToLocation"
    [] intent = "triggerAction" -> "triggerDebuggerAction"
    [] OTHER -> intent

C16_IntentStep ==
  op' \in OutboundIntents =>
    /\ Len(emitted') = 1
    /\ emitted'[1].channel = CommandName(op')
    /\ emitted'[1].args = arg'
    /\ LET before == trace[1]
           after == trace'[1]
           n == Len(after)
       IN /\ n = IF Len(before) < MaxTrace THEN Len(before) + 1 ELSE MaxTrace
          /\ after[n] = emitted'[1]
          /\ \A i \in 1..(n - 1) : after[i] = before[Len(before) - (n - 1) + i]

C16_OneCommandInOrder == [][C16_IntentStep]_vars

\* runToLocation("/a.js", 1), then triggerAction("restart"), on an attached Bridge
C16_Witness ==
  /\ op = "triggerAction"
  /\ Len(wire) = 1
  /\ Len(trace[1]) >= 2
  /\ LET n == Len(trace[1])
     IN /\ trace[1][n - 1].channel = "RunToLocation"
        /\ trace[1][n - 1].args = <<"/a.js", 1>>
        /\ trace[1][n].channel = "triggerDebuggerAction"
        /\ trace[1][n].args = <<"restart">>

\* C17: when cleanup() or dispose() returns, no 'ipc-message' subscription is
\* left, no webview of the Bridge is in the document, and _webview and
\* _webviewUrl are cleared; from then until the next bind no inbound message
\* is handled, so none mutates the model or sends a command.
InboundEvents ==
  {"ipc-message", "ready", "DebuggerResumed", "NonLoaderDebuggerPaused", "BreakpointAdded",
   "BreakpointRemoved", "ExpressionEvaluationResponse", "GetPropertiesResponse"}

C17_DetachedState ==
  op \in {"cleanup", "dispose"} =>
    /\ subscriptions = {}
    /\ inDom = {}
    /\ _webview = NoWebview
    /\ _webviewUrl = NoUrl
    /\ _cleanupDisposables = NoWebview
    /\ ~threw

C17_InboundStep ==
  op' \in InboundEvents => _cleanupDisposables # NoWebview

BreakpointCommands == UserActions \cup {"SyncBreakpoints"}

C18_NoEcho ==
  op \in {"BreakpointAdded", "BreakpointRemoved"} =>
    \A i \in 1..Len(emitted) : emitted[i].channel \notin BreakpointCommands

\* C19: a BreakpointAdded event with a local path makes exactly one call of
\* bindBreakpointIPC, with the path of the payload's sourceURL and the
\* payload's lineNumber, condition and enabled, and with resolved true exactly
\* when the payload's resolved is the boolean true; and a breakpoint of the
\* model becomes resolved in such a bind only, never in a user's change or in
\* the sending of a command.
C19_BoundState ==
  (op = "BreakpointAdded" /\ pc = "idle" /\ arg.sourceURL.scheme = "file") =>
    /\ Len(calls) = 1
    /\ calls[1].name = "bindBreakpointIPC"
    /\ calls[1].args = <<arg.sourceURL.path, arg.lineNumber, arg.condition, arg.enabled,
                         arg.resolved = <<"boolean", "true">> >>

Resolved(bps) == {k \in DOMAIN bps : bps[k].resolved}

C19_ResolvedStep ==
  Resolved(breakpoints') \ Resolved(breakpoints) # {} =>
    /\ pc = "bindBreakpointIPC"
    /\ op = "BreakpointAdded"
    /\ arg.resolved = <<"boolean", "true">>
    /\ Resolved(breakpoints') \ Resolved(breakpoints) =
         {Key(arg.sourceURL.path, arg.lineNumber)}

C19_ResolvedByEngine == []C19_BoundState /\ [][C19_ResolvedStep]_vars

\* next to a resolved breakpoint the engine announced one with resolved: 1, bound unresolved
C19_Witness ==
  /\ op = "BreakpointAdded"
  /\ pc = "idle"
  /\ arg.resolved = <<"number", "1">>
  /\ arg.sourceURL.scheme = "file"
  /\ Len(calls) = 1
  /\ ~breakpoints[Key(arg.sourceURL.path, arg.lineNumber)].resolved
  /\ Resolved(breakpoints) # {}

\* C20: for each evaluation id at most one response is delivered: a response
\* whose id has no outstanding request, because it was answered before or was
\* never requested, is dropped, and a delivered response is never replaced.
ResponseEvents == {"ExpressionEvaluationResponse", "GetPropertiesResponse"}

C20_AnsweredOrPending == DOMAIN pending \cap DOMAIN delivered = {}

C20_DropStep ==
  (op' \in ResponseEvents /\ arg'.id \notin DOMAIN pending) =>
    /\ delivered' = delivered
    /\ pending' = pending

C20_KeepStep ==
  \A id \in DOMAIN delivered :
    id \in DOMAIN delivered' /\ delivered'[id] = delivered[id]

Forwarded(params) ==
  [sourceURL |-> [scheme |-> "file", path |-> params.breakpoint.path],
   lineNumber |-> params.breakpoint.line,
   condition |-> params.breakpoint.condition,
   enabled |-> params.breakpoint.enabled]

C21_Applies ==
  op' = "userBreakpointChange" /\ _disposables /\ ~_suppressBreakpointSync

C21_ForwardStep ==
  C21_Applies =>
    /\ Len(emitted') = 1
    /\ emitted'[1].channel = arg'.action
    /\ emitted'[1].args = <<Forwarded(arg')>>
    /\ LET before == trace[1]
           after == trace'[1]
           n == Len(after)
       IN /\ n = IF Len(before) < MaxTrace THEN Len(before) + 1 ELSE MaxTrace
          /\ after[n] = emitted'[1]
          /\ \A i \in 1..(n - 1) : after[i] = before[Len(before) - (n - 1) + i]
    /\ chromeChannel # NoWebview =>
         wire' = <<[to |-> chromeChannel, cmd |-> emitted'[1]]>>
    /\ chromeChannel = NoWebview => wire' = <<>>

C21_ForwardedInOrder == [][C21_ForwardStep]_vars

\* C21 as the specification states it: the engine receives one command for
\* every such change, whether or not a transport was attached.
C21_EngineReceivesStep ==
  C21_Applies => (Len(wire') = 1 /\ wire'[1].cmd.channel = arg'.action)

C21_EngineReceivesEach == [][C21_EngineReceivesStep]_vars

\* the breakpoint of line 2 was added and then edited, on an attached Bridge
C21_Witness ==
  /\ op = "userBreakpointChange"
  /\ Len(wire) = 1
  /\ Len(trace[1]) >= 2
  /\ LET n == Len(trace[1])
     IN /\ trace[1][n - 1].channel = "AddBreakpoint"
        /\ trace[1][n - 1].args[1].lineNumber = 2
        /\ trace[1][n - 1].args[1].enabled
        /\ trace[1][n].channel = "UpdateBreakpoint"
        /\ trace[1][n].args[1].lineNumber = 2
        /\ ~trace[1][n].args[1].enabled

\* C22: DebuggerResumed sets the mode to RUNNING. LoaderBreakpointResumed calls
\* the store's loaderBreakpointResumed and nothing else, and leaves the mode.
\* CallFrameSelected passes its payload, null included, to
\* setSelectedCallFrameLine. OpenSourceLocation calls openSourceLocation with
\* the payload's sourceURL and lineNumber, and calls nothing for a null payload.
Notified(name) ==
  op = "ipc-message" /\ arg.channel = "notification" /\ arg.args[1] = name

C22_HandledState ==
  /\ op = "DebuggerResumed" =>
        (mode = "RUNNING" /\ Names(calls) = {"setDebuggerMode"})
  /\ Notified("LoaderBreakpointResumed") =>
        (Len(calls) = 1 /\ calls[1].name = "loaderBreakpointResumed")
  /\ Notified("CallFrameSelected") =>
        /\ Len(calls) = 1
        /\ calls[1].name = "setSelectedCallFrameLine"
        /\ calls[1].args = <<arg.args[2]>>
  /\ Notified("OpenSourceLocation") =>
        IF arg.args[2] = <<>>
        THEN calls = <<>>
        ELSE /\ Len(calls) = 1
             /\ calls[1].name = "openSourceLocation"
             /\ calls[1].args = <<arg.args[2][1].sourceURL, arg.args[2][1].lineNumber>>

C22_LoaderStep ==
  (op' = "ipc-message" /\ arg'.args[1] = "LoaderBreakpointResumed") => mode' = mode

C22_ResumeAndNavigation == []C22_HandledState /\ [][C22_LoaderStep]_vars

\* LoaderBreakpointResumed arrived while paused: the store was told, still PAUSED
C22_Witness ==
  /\ op = "ipc-message"
  /\ arg = [channel |-> "notification", args |-> <<"LoaderBreakpointResumed">>]
  /\ Names(calls) = {"loaderBreakpointResumed"}
  /\ mode = "PAUSED"

\* C23: in every state the webview the dispatcher sends on is the webview whose
\* 'ipc-message' events the Bridge is subscribed to (none on either side
\* before a bind), and a bind that throws because the Bridge is attached
\* leaves the stored webview, the dispatcher's channel and the subscriptions
\* as they were.
C23_SameEndpointState ==
  subscriptions = {chromeChannel} \ {NoWebview}

C23_FailedBindStep ==
  (op' \in {"_setWebviewElement", "renderChromeWebview"} /\ threw') =>
    UNCHANGED <<_webview, chromeChannel, subscriptions>>

C23_SameEndpoint == []C23_SameEndpointState /\ [][C23_FailedBindStep]_vars

\* C24: the onUserChange subscription is ended by dispose() and by nothing
\* else: a user's breakpoint change after cleanup() alone still invokes the
\* listener, which calls send once; after dispose() it invokes nothing of the
\* Bridge, for good; and cleanup() and dispose() themselves send no command.
C24_DetachState ==
  /\ op \in {"cleanup", "dispose"} => (emitted = <<>> /\ wire = <<>>)
  /\ op = "dispose" => ~_disposables

C24_ListenerStep ==
  /\ op' = "cleanup" => _disposables' = _disposables
  /\ ~_disposables => ~_disposables'
  /\ op' = "userBreakpointChange" =>
       IF _disposables
       THEN Len(listener') = 1 /\ Len(emitted') = 1
       ELSE listener' = <<>> /\ emitted' = <<>> /\ wire' = <<>>

C24_ListenerLifetime == []C24_DetachState /\ [][C24_ListenerStep]_vars

\* after a bind and a cleanup() the user adds a breakpoint: send is called
C24_Witness ==
  /\ op = "userBreakpointChange"
  /\ arg.action = "AddBreakpoint"
  /\ _disposables
  /\ _cleanupDisposables = NoWebview
  /\ chromeChannel # NoWebview
  /\ Len(listener) = 1
  /\ Len(emitted) = 1

(* C25: while the panel is mounted, state.isResizing is true exactly when its
   mousemove and mouseup listeners are registered on window, and the two are
   registered together or not at all (one pair at most); a mousemove with
   buttons = 0 ends the resize as a mouseup does, leaves the size alone and
   does not call onResize; every other mousemove sets the size to the value
   computed from the event and calls onResize once with that value, and the
   resize goes on. *)
C25_ResizingState ==
  /\ windowListeners \in {{}, {"mousemove", "mouseup"}}
  /\ mounted => (isResizing <=> windowListeners = {"mousemove", "mouseup"})

C25_MouseMoveStep ==
  panelOp' = "_handleMouseMove" =>
    IF panelArg'.buttons = 0
    THEN /\ ~isResizing'
         /\ windowListeners' = {}
         /\ size' = size
         /\ onResize' = <<>>
    ELSE /\ onResize' = <<size'>>
         /\ size' = (CASE position = "left" -> panelArg'.pageX - Rect.left
                        [] position = "top" -> panelArg'.pageY - Rect.top
                        [] position = "bottom" -> Rect.bottom - panelArg'.pageY
                        [] position = "right" -> Rect.right - panelArg'.pageX)
         /\ isResizing' = isResizing
         /\ windowListeners' = windowListeners

C25_OtherStep ==
  panelOp' \in {"_handleMouseDown", "_handleMouseUp"} =>
    /\ onResize' = <<>>
    /\ size' = size
    /\ isResizing' = (panelOp' = "_handleMouseDown")

C25_ResizeProtocol ==
  /\ []C25_ResizingState
  /\ [][C25_MouseMoveStep /\ C25_OtherStep]_vars

\* a resize that a second mousedown restarted, moved the panel's edge and was
\* then ended by a mousemove with no button down
C25_Witness ==
  /\ panelOp = "_handleMouseMove"
  /\ panelArg.buttons = 0
  /\ ~isResizing
  /\ windowListeners = {}
  /\ _resizeSubscriptions = "disposed"
  /\ size # initialSize
  /\ position # "left"

====
